---- MODULE Spec2Model ----
(***************************************************************************)
(* Model of the KYC gateway backend (backend/server.js, final version in   *)
(* src/unnamed/part_000): the kyc_applicants table, the signed provider    *)
(* client sumsubFetch, and the three route handlers                        *)
(*   GET  /api/sumsub/levels                                               *)
(*   POST /api/kyc/create-applicant                                        *)
(*   POST /api/kyc/generate-websdk-link                                    *)
(* Every handler is an async function: it runs atomically up to each       *)
(* await (a store query or the provider fetch), and handlers of different  *)
(* requests interleave at those awaits.                                    *)
(***************************************************************************)
EXTENDS Integers, Sequences, FiniteSets, TLC

(***************************************************************************)
(* Bounds of the model.                                                    *)
(***************************************************************************)
\* number of inbound requests served in one behaviour
NumReqs == 3
\* number of requests whose handler records are kept (in flight or answered)
NumSlots == 3
\* number of requests whose handlers are in flight at the same time
MaxInFlight == 2
\* largest numeral that Number() recognises in the model
MaxNum == 2

Reqs == 1..NumSlots

(***************************************************************************)
(* JavaScript values.  A value is a tagged record, so that the number 0,   *)
(* the string "0", the empty string and undefined stay distinct.           *)
(***************************************************************************)
Undefined == [t |-> "undefined"]
NaN == [t |-> "NaN"]
Str(s) == [t |-> "string", s |-> s]
Num(n) == [t |-> "number", n |-> n]
\* a string held as a sequence of one-character strings (so it can be trimmed)
Text(cs) == [t |-> "text", cs |-> cs]
Null == [t |-> "null"]
\* an object with fields f, an array with elements a
Obj(f) == [t |-> "object", f |-> f]
Arr(a) == [t |-> "array", a |-> a]
\* the object {}
EmptyObj == Obj([k \in {} |-> Undefined])

\* ToBoolean of a value, as used by !x, x || y and if (x)
Truthy(v) ==
  CASE v.t = "undefined" -> FALSE
    [] v.t = "null" -> FALSE
    [] v.t = "NaN" -> FALSE
    [] v.t = "string" -> v.s # ""
    [] v.t = "number" -> v.n # 0
    [] v.t = "text" -> v.cs # <<>>
    [] OTHER -> TRUE

\* a || b
Or(a, b) == IF Truthy(a) THEN a ELSE b

\* Number(v) for the values a request body can carry
ToNumber(v) ==
  CASE v.t = "number" -> v
    [] v.t = "string" ->
         IF v.s = "" THEN Num(0)
         ELSE IF \E n \in 0..MaxNum : ToString(n) = v.s
              THEN Num(CHOOSE n \in 0..MaxNum : ToString(n) = v.s)
              ELSE NaN
    [] OTHER -> NaN

\* x?.field : undefined unless x is an object that has the field
Get(x, field) ==
  IF x.t = "object" /\ field \in DOMAIN x.f THEN x.f[field] ELSE Undefined

RECURSIVE TrimLeft(_)
TrimLeft(cs) ==
  IF cs # <<>> /\ Head(cs) = " " THEN TrimLeft(Tail(cs)) ELSE cs

RECURSIVE TrimRight(_)
TrimRight(cs) ==
  IF cs # <<>> /\ cs[Len(cs)] = " "
  THEN TrimRight(SubSeq(cs, 1, Len(cs) - 1))
  ELSE cs

\* String(v).trim() for a text value
Trim(v) == Text(TrimRight(TrimLeft(v.cs)))

\* x && String(x).trim() for an optional text field
NonBlank(v) == Truthy(v) /\ Truthy(Trim(v))

(***************************************************************************)
(* State.                                                                  *)
(***************************************************************************)
VARIABLES
  env,        \* process.env: SUMSUB_APP_TOKEN and SUMSUB_SECRET_KEY
  db,         \* the rows of table kyc_applicants
  serial,     \* the sequence behind kyc_applicants.id
  now,        \* the clock read by NOW() and Date.now()
  applicants, \* the applicants the provider has created
  handler,    \* one record per inbound request: the handler's position and locals
  arrived     \* number of requests received so far

vars == <<env, db, serial, now, applicants, handler, arrived>>

(***************************************************************************)
(* The durable store: table kyc_applicants.                                *)
(***************************************************************************)
\* the columns getApplicantFromDb and upsertApplicantInDb return
Returned(row) ==
  [external_user_id |-> row.external_user_id, brand |-> row.brand,
   inbox_id |-> row.inbox_id, applicant_id |-> row.applicant_id,
   created_at |-> row.created_at, updated_at |-> row.updated_at]

\* SELECT ... WHERE external_user_id = $1 : the matching rows
SelectApplicant(table, externalUserId) ==
  {Returned(row) : row \in {x \in table : x.external_user_id = externalUserId}}

\* UpsertApplicant without the unique constraint and its conflict clause
UpsertApplicant_PlainInsert(table, p, id, t) ==
  table \cup {[id |-> id, external_user_id |-> p.externalUserId,
               brand |-> p.brand, inbox_id |-> p.inboxId,
               applicant_id |-> p.applicantId,
               created_at |-> t, updated_at |-> t]}

\* UpsertApplicant whose conflict clause also resets created_at
UpsertApplicant_ResetsCreatedAt(table, p, id, t) ==
  {row \in table : row.external_user_id # p.externalUserId}
    \cup {[id |-> id, external_user_id |-> p.externalUserId,
            brand |-> p.brand, inbox_id |-> p.inboxId,
            applicant_id |-> p.applicantId,
            created_at |-> t, updated_at |-> t]}

\* INSERT ... ON CONFLICT (external_user_id) DO UPDATE SET ... , executed at time t
\* with id drawn from the sequence
UpsertApplicant(table, p, id, t) ==
  IF \E row \in table : row.external_user_id = p.externalUserId
  THEN {IF row.external_user_id = p.externalUserId
        THEN [row EXCEPT !.brand = p.brand, !.inbox_id = p.inboxId,
                         !.applicant_id = p.applicantId, !.updated_at = t]
        ELSE row : row \in table}
  ELSE table \cup {[id |-> id, external_user_id |-> p.externalUserId,
                    brand |-> p.brand, inbox_id |-> p.inboxId,
                    applicant_id |-> p.applicantId,
                    created_at |-> t, updated_at |-> t]}

\* the column constraints of the table: TEXT NOT NULL, INTEGER NOT NULL
AcceptsRow(p) ==
  /\ p.externalUserId.t \notin {"undefined", "null"}
  /\ p.brand.t \notin {"undefined", "null"}
  /\ p.applicantId.t \notin {"undefined", "null"}
  /\ p.inboxId.t = "number"

(***************************************************************************)
(* The signed provider client.                                             *)
(***************************************************************************)
ToUpperCase(m) ==
  CASE m = "get" -> "GET" [] m = "post" -> "POST" [] OTHER -> m

\* JSON.stringify(bodyObj): the serialised text of the object
Stringify(obj) == [t |-> "json", of |-> obj]

\* encodeURIComponent on the level names of the model
EncodeURIComponent(v) ==
  CASE v = Str("lvl a") -> Str("lvl%20a") [] OTHER -> v

\* crypto.createHmac("sha256", key).update(msg).digest("hex")
Hmac(key, msg) == [hmac |-> "sha256", key |-> key, msg |-> msg]

\* signSumsubRequest leaving the body out of the signed string
signSumsubRequest_NoBody(method, pathWithQuery, bodyString, time) ==
  [ts |-> time,
   signature |-> Hmac(env.SUMSUB_SECRET_KEY,
                      <<time, ToUpperCase(method), pathWithQuery, Str("")>>)]

\* signSumsubRequest({ method, pathWithQuery, bodyString }) called at time:
\* the signed string ts + METHOD + path + body is the tuple of its four parts
signSumsubRequest(method, pathWithQuery, bodyString, time) ==
  [ts |-> time,
   signature |-> Hmac(env.SUMSUB_SECRET_KEY,
                      <<time, ToUpperCase(method), pathWithQuery, bodyString>>)]

\* the check at the head of sumsubFetch
ConfigMissing == ~Truthy(env.SUMSUB_APP_TOKEN) \/ ~Truthy(env.SUMSUB_SECRET_KEY)

\* const bodyString = bodyObj ? JSON.stringify(bodyObj) : ""
BodyString(bodyObj) == IF Truthy(bodyObj) THEN Stringify(bodyObj) ELSE Str("")

\* the request sumsubFetch hands to fetch(), given the signer's result
WireRequest(method, pathWithQuery, bodyObj, signed) ==
  [method |-> method, path |-> pathWithQuery,
   token |-> env.SUMSUB_APP_TOKEN, ts |-> signed.ts, sig |-> signed.signature,
   body |-> IF Truthy(bodyObj) THEN BodyString(bodyObj) ELSE Undefined]

\* the tail of sumsubFetch: what it returns or throws for a provider reply
\* [ok, status, json, text]; json is Null when the text does not parse
FetchThrows(reply) == ~reply.ok
FetchError(reply) ==
  Str("Sumsub error " \o ToString(reply.status) \o ": " \o reply.text)
FetchResult(reply) == IF reply.json # Null THEN reply.json ELSE Str(reply.text)

(***************************************************************************)
(* Requests and replies the environment can produce.                       *)
(***************************************************************************)
\* a request body with the fields of f
Body(f) == Obj(f)

CreateFields ==
  {"externalUserId", "brand", "inboxId", "levelName", "firstName", "lastName"}

\* a complete create-applicant body
FullCreate(user, brand, inboxId, middleName) ==
  [externalUserId |-> Str(user), brand |-> brand, inboxId |-> inboxId,
   levelName |-> Str("basic-kyc"), firstName |-> Str("Ann"),
   lastName |-> Str("Lee"), middleName |-> middleName]

\* f without field k
Without(f, k) == [x \in (DOMAIN f) \ {k} |-> f[x]]

\* the create-applicant bodies of concurrent clients
CreateBodies ==
  {Body(FullCreate("u1", Str("acme"), Num(1), Undefined)),
   Body(FullCreate("u1", Str("globex"), Str("2"), Text(<<" ", "M", " ">>))),
   Body(Without(FullCreate("u2", Str("acme"), Num(1), Undefined), "lastName"))}

\* the generate-websdk-link bodies of concurrent clients
LinkBodies ==
  {Body([externalUserId |-> Str("u1"), levelName |-> Str("basic-kyc"),
         email |-> Text(<<" ", "a", "@", "b">>)])}

\* the create-applicant bodies of a single client: every field missing in
\* turn, falsy values, no body at all, and the forms of middleName
AllCreateBodies ==
  LET full == FullCreate("u1", Str("acme"), Num(1), Undefined)
  IN CreateBodies
       \cup {Body(Without(full, k)) : k \in CreateFields}
       \cup {Body([full EXCEPT !.inboxId = Num(0)]),
             Body([full EXCEPT !.inboxId = Str("x")]),
             Body([full EXCEPT !.brand = Str("")]),
             Body([full EXCEPT !.firstName = Str("")]),
             Body([full EXCEPT !.levelName = Str("lvl a")]),
             Body([full EXCEPT !.middleName = Text(<<>>)]),
             Body([full EXCEPT !.middleName = Text(<<" ", " ">>)]),
             Body(Without(full, "middleName")),
             Undefined}

\* the generate-websdk-link bodies of a single client
AllLinkBodies ==
  LET full == [externalUserId |-> Str("u1"), levelName |-> Str("basic-kyc"),
               email |-> Text(<<" ">>)]
  IN LinkBodies
       \cup {Body(full), Body(Without(full, "email")),
             Body(Without(full, "externalUserId")),
             Body(Without(full, "levelName")),
             Body([full EXCEPT !.levelName = Str("")]),
             Undefined}

\* provider replies to POST /resources/applicants; id is the applicant created
CreateReplies(id) ==
  {[ok |-> TRUE, status |-> 200, json |-> Obj([id |-> Str(id)]), text |-> "{id}"],
   [ok |-> TRUE, status |-> 200, json |-> Obj([applicantId |-> Str(id)]),
    text |-> "{applicantId}"],
   [ok |-> TRUE, status |-> 200, json |-> EmptyObj, text |-> "{}"]}

\* provider replies to POST .../websdkLink
LinkReplies ==
  {[ok |-> TRUE, status |-> 200,
    json |-> Obj([url |-> Str("https://in.sumsub.com/websdk/p/x")]),
    text |-> "{url}"],
   [ok |-> TRUE, status |-> 200, json |-> Null, text |-> "OK"]}

\* provider replies to GET /resources/applicants/-/levels
LevelReplies ==
  {[ok |-> TRUE, status |-> 200,
    json |-> Obj([items |-> Arr(<<Obj([name |-> Str("basic-kyc")]),
                                  Obj([id |-> Str("x1")])>>)]),
    text |-> "{items}"],
   [ok |-> TRUE, status |-> 200,
    json |-> Obj([list |-> Obj([items |-> Arr(<<Obj([levelName |-> Str("lvl-a")])>>)])]),
    text |-> "{list}"],
   [ok |-> TRUE, status |-> 200,
    json |-> Obj([items |-> Arr(<<Obj([name |-> Str("n1"), id |-> Str("i1")]),
                                  EmptyObj, Null,
                                  Obj([id |-> Str(""), levelName |-> Str("l3")])>>),
                  list |-> Obj([items |-> Arr(<<Obj([name |-> Str("zz")])>>)])]),
    text |-> "{items,list}"],
   [ok |-> TRUE, status |-> 200,
    json |-> Obj([items |-> Str("none"),
                  list |-> Obj([items |-> Arr(<<Obj([id |-> Str("i9")])>>)])]),
    text |-> "{items:none,list}"],
   [ok |-> TRUE, status |-> 200, json |-> EmptyObj, text |-> "{}"]}

\* the outcome of a fetch() that rejected
Rejected == [t |-> "rejected"]

\* a reply with a non-success status
ErrorReply == [ok |-> FALSE, status |-> 500, json |-> Null, text |-> "unavailable"]

(***************************************************************************)
(* The handlers.                                                           *)
(***************************************************************************)
Idle ==
  [pc |-> "idle", op |-> "none", body |-> Undefined, existing |-> Undefined,
   res |-> Undefined, created |-> Undefined, applicantId |-> Undefined,
   out |-> <<>>, io |-> <<>>, signed |-> <<>>, sent |-> <<>>, after |-> {}]

\* res.status(status).json(payload): the handler sends a response and returns
Respond(h, payload) == [h EXCEPT !.pc = "done", !.out = Append(@, payload)]

\* res.status(status).json({ ok: false, error })
Fail(h, status, message) ==
  Respond(h, [status |-> status, ok |-> FALSE, error |-> message])

\* Catch answering with the success flag set
Catch_ReportsOk(h, message) ==
  Respond(h, [status |-> 500, ok |-> TRUE, error |-> message])

\* Catch sending a failed provider request a second time
Catch_RetryFetch(h, message) ==
  IF h.pc = "call" /\ Len(h.sent) = 1
  THEN [h EXCEPT !.io = Append(@, "fetch"), !.signed = Append(@, h.signed[1]),
                 !.sent = Append(@, h.sent[1])]
  ELSE Fail(h, 500, message)

\* Catch that sends no response: the request is left hanging
Catch_Hangs(h, message) == [h EXCEPT !.pc = "hung"]

\* the catch block of a handler: String(e?.message || e) with status 500
Catch(h, message) == Fail(h, 500, message)

\* const { ... } = req.body || {}
Field(h, name) == Get(Or(h.body, EmptyObj), name)

\* existing?.applicant_id
ApplicantIdOf(existing) ==
  IF existing \in {Null, Undefined} THEN Undefined ELSE existing.applicant_id

\* sumsubFetch without the check of the credentials
sumsubFetch_NoCheck(h, method, pathWithQuery, bodyObj) ==
  LET signed == signSumsubRequest(method, pathWithQuery, BodyString(bodyObj), now)
  IN [h EXCEPT !.pc = "call", !.io = Append(@, "fetch"),
               !.signed = Append(@, signed),
               !.sent = Append(@, WireRequest(method, pathWithQuery, bodyObj, signed))]

\* a call of sumsubFetch up to its await of fetch(): throws on missing
\* credentials, else calls the signer once and sends the request
sumsubFetch(h, method, pathWithQuery, bodyObj) ==
  IF ConfigMissing
  THEN Catch(h, Str("Missing SUMSUB_APP_TOKEN or SUMSUB_SECRET_KEY in environment variables."))
  ELSE LET signed == signSumsubRequest(method, pathWithQuery, BodyString(bodyObj), now)
       IN [h EXCEPT !.pc = "call", !.io = Append(@, "fetch"),
                    !.signed = Append(@, signed),
                    !.sent = Append(@, WireRequest(method, pathWithQuery, bodyObj, signed))]

\* CreateValidation without the check of firstName and lastName
CreateValidation_NoNames(h) ==
  IF \/ ~Truthy(Field(h, "externalUserId")) \/ ~Truthy(Field(h, "brand"))
     \/ ~Truthy(Field(h, "inboxId")) \/ ~Truthy(Field(h, "levelName"))
  THEN "Missing required fields: externalUserId, brand, inboxId, levelName"
  ELSE ""

\* CreateValidation answering both checks with the message of the first
CreateValidation_OneMessage(h) ==
  IF \/ ~Truthy(Field(h, "externalUserId")) \/ ~Truthy(Field(h, "brand"))
     \/ ~Truthy(Field(h, "inboxId")) \/ ~Truthy(Field(h, "levelName"))
     \/ ~Truthy(Field(h, "firstName")) \/ ~Truthy(Field(h, "lastName"))
  THEN "Missing required fields: externalUserId, brand, inboxId, levelName"
  ELSE ""

\* the two required-field checks of create-applicant; "" when both pass
CreateValidation(h) ==
  IF \/ ~Truthy(Field(h, "externalUserId")) \/ ~Truthy(Field(h, "brand"))
     \/ ~Truthy(Field(h, "inboxId")) \/ ~Truthy(Field(h, "levelName"))
  THEN "Missing required fields: externalUserId, brand, inboxId, levelName"
  ELSE IF ~Truthy(Field(h, "firstName")) \/ ~Truthy(Field(h, "lastName"))
       THEN "Missing required fields: firstName and lastName"
       ELSE ""

\* the required-field check of generate-websdk-link; "" when it passes
LinkValidation(h) ==
  IF ~Truthy(Field(h, "externalUserId")) \/ ~Truthy(Field(h, "levelName"))
  THEN "Missing required fields: externalUserId, levelName"
  ELSE ""

\* CreateProviderBody passing on any non-empty middleName as it came
CreateProviderBody_NoTrim(h) ==
  Obj([externalUserId |-> Field(h, "externalUserId"),
       levelName |-> Field(h, "levelName"),
       fixedInfo |->
         Obj(IF Truthy(Field(h, "middleName"))
             THEN [firstName |-> Field(h, "firstName"),
                   lastName |-> Field(h, "lastName"),
                   middleName |-> Field(h, "middleName")]
             ELSE [firstName |-> Field(h, "firstName"),
                   lastName |-> Field(h, "lastName")])])

\* the body create-applicant sends to the provider
CreateProviderBody(h) ==
  LET fixedInfo == [firstName |-> Field(h, "firstName"),
                    lastName |-> Field(h, "lastName")]
      middleName == Field(h, "middleName")
  IN Obj([externalUserId |-> Field(h, "externalUserId"),
          levelName |-> Field(h, "levelName"),
          fixedInfo |->
            Obj(IF NonBlank(middleName)
                THEN [firstName |-> fixedInfo.firstName,
                      lastName |-> fixedInfo.lastName,
                      middleName |-> Trim(middleName)]
                ELSE fixedInfo)])

\* the body generate-websdk-link sends to the provider
LinkProviderBody(h) ==
  LET email == Field(h, "email")
  IN Obj(IF NonBlank(email)
         THEN [levelName |-> Field(h, "levelName"),
               userId |-> Field(h, "externalUserId"), ttlInSecs |-> Num(1800),
               applicantIdentifiers |-> Obj([email |-> Trim(email)])]
         ELSE [levelName |-> Field(h, "levelName"),
               userId |-> Field(h, "externalUserId"), ttlInSecs |-> Num(1800)])

\* CreateAfterLookup without the reuse branch: the provider is always called
CreateAfterLookup_NoReuse(h, existing) ==
  sumsubFetch([h EXCEPT !.existing = existing], "POST",
              <<"/resources/applicants?levelName=",
                EncodeURIComponent(Field(h, "levelName"))>>,
              CreateProviderBody(h))

\* CreateAfterLookup storing the mapping before the provider has confirmed it
CreateAfterLookup_WriteFirst(h, existing) ==
  IF Truthy(ApplicantIdOf(existing))
  THEN Respond([h EXCEPT !.existing = existing],
               [status |-> 200, ok |-> TRUE, reused |-> TRUE,
                externalUserId |-> Field(h, "externalUserId"),
                applicantId |-> existing.applicant_id, db |-> existing])
  ELSE [h EXCEPT !.existing = existing, !.pc = "write",
                 !.applicantId = Field(h, "externalUserId")]

\* CreateAfterLookup refreshing the stored mapping when it reuses it
CreateAfterLookup_RefreshOnReuse(h, existing) ==
  LET h1 == [h EXCEPT !.existing = existing]
  IN IF Truthy(ApplicantIdOf(existing))
     THEN [h1 EXCEPT !.pc = "write", !.applicantId = existing.applicant_id]
     ELSE sumsubFetch(h1, "POST",
                      <<"/resources/applicants?levelName=",
                        EncodeURIComponent(Field(h, "levelName"))>>,
                      CreateProviderBody(h))

\* create-applicant after the lookup returned: reuse, or call the provider
CreateAfterLookup(h, existing) ==
  LET h1 == [h EXCEPT !.existing = existing]
  IN IF Truthy(ApplicantIdOf(existing))
     THEN Respond(h1, [status |-> 200, ok |-> TRUE, reused |-> TRUE,
                       externalUserId |-> Field(h, "externalUserId"),
                       applicantId |-> existing.applicant_id,
                       db |-> existing])
     ELSE sumsubFetch(h1, "POST",
                      <<"/resources/applicants?levelName=",
                        EncodeURIComponent(Field(h, "levelName"))>>,
                      CreateProviderBody(h))

\* LinkAfterLookup without the check that an applicant exists
LinkAfterLookup_NoCheck(h, existing) ==
  sumsubFetch([h EXCEPT !.existing = existing], "POST",
              <<"/resources/sdkIntegrations/levels/-/websdkLink">>,
              LinkProviderBody(h))

\* generate-websdk-link after the lookup returned
LinkAfterLookup(h, existing) ==
  LET h1 == [h EXCEPT !.existing = existing]
  IN IF ~Truthy(ApplicantIdOf(existing))
     THEN Fail(h1, 400, Str("No applicant found in DB for this externalUserId. Create applicant first."))
     ELSE sumsubFetch(h1, "POST",
                      <<"/resources/sdkIntegrations/levels/-/websdkLink">>,
                      LinkProviderBody(h))

\* CreateAfterFetch without the check that an applicant id was found
CreateAfterFetch_NoCheck(h, created) ==
  [h EXCEPT !.created = created,
            !.applicantId = Or(Get(created, "id"), Get(created, "applicantId")),
            !.pc = "write"]

\* create-applicant after sumsubFetch returned created
CreateAfterFetch(h, created) ==
  LET applicantId == Or(Get(created, "id"), Get(created, "applicantId"))
      h1 == [h EXCEPT !.created = created, !.applicantId = applicantId]
  IN IF ~Truthy(applicantId)
     THEN Fail(h1, 500, Str("Created applicant but could not find applicantId in Sumsub response."))
     ELSE [h1 EXCEPT !.pc = "write"]

\* LinkAfterFetch keeping the url: it goes on to store it as the mapping
LinkAfterFetch_Persist(h, data) ==
  IF ~Truthy(Get(data, "url"))
  THEN Fail(h, 500, Str("Sumsub response did not include a url field."))
  ELSE [h EXCEPT !.pc = "write", !.applicantId = Get(data, "url"),
                 !.body = Obj([externalUserId |-> Field(h, "externalUserId"),
                               brand |-> Field(h, "levelName"),
                               inboxId |-> Num(1)])]

\* generate-websdk-link after sumsubFetch returned data
LinkAfterFetch(h, data) ==
  LET url == Get(data, "url")
  IN IF ~Truthy(url)
     THEN Fail(h, 500, Str("Sumsub response did not include a url field."))
     ELSE Respond(h, [status |-> 200, ok |-> TRUE, url |-> url,
                      ttlInSecs |-> Num(1800),
                      externalUserId |-> Field(h, "externalUserId"),
                      levelName |-> Field(h, "levelName")])

\* LevelNames looking at id before name
LevelNames_IdFirst(items) ==
  LET mapped == [i \in 1..Len(items) |->
                   Or(Or(Get(items[i], "id"), Get(items[i], "name")),
                      Get(items[i], "levelName"))]
  IN SelectSeq(mapped, Truthy)

\* items.map((x) => x?.name || x?.id || x?.levelName).filter(Boolean)
LevelNames(items) ==
  LET mapped == [i \in 1..Len(items) |->
                   Or(Or(Get(items[i], "name"), Get(items[i], "id")),
                      Get(items[i], "levelName"))]
  IN SelectSeq(mapped, Truthy)

\* the items array of a levels payload
LevelItems(data) ==
  IF Get(data, "items").t = "array" THEN Get(data, "items").a
  ELSE IF Get(Get(data, "list"), "items").t = "array"
       THEN Get(Get(data, "list"), "items").a
       ELSE <<>>

\* levels after sumsubFetch returned data
LevelsAfterFetch(h, data) ==
  Respond(h, [status |-> 200, ok |-> TRUE,
              levelNames |-> LevelNames(LevelItems(data)), raw |-> data])

\* WriteResponse reporting a failure although the row was written
WriteResponse_Fails(h, dbRow) ==
  Fail(h, 500, Str("could not confirm the stored applicant"))

\* the response of create-applicant after upsertApplicantInDb returned dbRow
WriteResponse(h, dbRow) ==
  Respond(h, [status |-> 200, ok |-> TRUE, reused |-> FALSE,
              externalUserId |-> Field(h, "externalUserId"),
              applicantId |-> h.applicantId,
              db |-> dbRow, raw |-> h.created])

\* the arguments create-applicant passes to upsertApplicantInDb
UpsertArgs(h) ==
  [externalUserId |-> Field(h, "externalUserId"), brand |-> Field(h, "brand"),
   inboxId |-> ToNumber(Field(h, "inboxId")), applicantId |-> h.applicantId]

(***************************************************************************)
(* Actions: one per run of a handler between two awaits, together with the *)
(* store query or provider reply that resumes it.                          *)
(***************************************************************************)
\* request r arrives; the handler runs up to its first await
Begin(r, o, b) ==
  LET h == [Idle EXCEPT !.op = o, !.body = b,
                        !.after = {q \in Reqs \ {r} : handler[q].pc = "done"}]
  IN CASE o = "levels" ->
            sumsubFetch(h, "GET", <<"/resources/applicants/-/levels">>, Null)
       [] o = "create" ->
            IF CreateValidation(h) # ""
            THEN Fail(h, 400, Str(CreateValidation(h)))
            ELSE [h EXCEPT !.pc = "read"]
       [] o = "link" ->
            IF LinkValidation(h) # ""
            THEN Fail(h, 400, Str(LinkValidation(h)))
            ELSE [h EXCEPT !.pc = "read"]

\* the requests whose handler is suspended at an await
InFlight == {q \in Reqs : handler[q].pc \in {"read", "call", "write"}}

\* a request arrives and takes record r among slots: a fresh one, or, when
\* none is left, that of an answered request, which is then forgotten
Arrive(r, inputs, slots) ==
  /\ arrived < NumReqs
  /\ \/ handler[r].pc = "idle"
     \/ handler[r].pc = "done" /\ \A q \in slots : handler[q].pc # "idle"
  /\ Cardinality(InFlight) < MaxInFlight
  /\ \A q \in slots : q < r => handler[q].pc # "idle"
  /\ \E in \in inputs :
       handler' = [q \in Reqs |->
                     IF q = r THEN Begin(r, in.op, in.body)
                     ELSE [handler[q] EXCEPT !.after = @ \ {r}]]
  /\ arrived' = arrived + 1
  /\ UNCHANGED <<env, db, serial, now, applicants>>

\* getApplicantFromDb resolves with r.rows[0] || null and the handler resumes
LookupReturns(r) ==
  /\ handler[r].pc = "read"
  /\ LET h == [handler[r] EXCEPT !.io = Append(@, "read")]
         rows == SelectApplicant(db, Field(h, "externalUserId"))
     IN \E existing \in (IF rows = {} THEN {Null} ELSE rows) :
          handler' = [handler EXCEPT ![r] =
                        IF h.op = "create" THEN CreateAfterLookup(h, existing)
                        ELSE LinkAfterLookup(h, existing)]
  /\ UNCHANGED <<env, db, serial, now, applicants, arrived>>

\* getApplicantFromDb rejects (the store is unreachable or the table missing)
LookupFails(r) ==
  /\ handler[r].pc = "read"
  /\ handler' = [handler EXCEPT ![r] =
                   Catch([@ EXCEPT !.io = Append(@, "read")], Str("store read failed"))]
  /\ UNCHANGED <<env, db, serial, now, applicants, arrived>>

\* the provider answers the request of r and the handler resumes
ProviderReplies(r) ==
  /\ handler[r].pc = "call"
  /\ LET h == handler[r]
         id == "a" \o ToString(Cardinality(applicants) + 1)
         replies == (CASE h.op = "create" -> CreateReplies(id)
                       [] h.op = "link" -> LinkReplies
                       [] h.op = "levels" -> LevelReplies) \cup {ErrorReply}
     IN \E reply \in replies :
          /\ applicants' =
               IF h.op = "create" /\ reply.ok
               THEN applicants \cup {[externalUserId |-> Field(h, "externalUserId"),
                                      id |-> Str(id)]}
               ELSE applicants
          /\ handler' = [handler EXCEPT ![r] =
               LET h1 == [h EXCEPT !.res = reply]
               IN IF FetchThrows(reply) THEN Catch(h1, FetchError(reply))
                  ELSE CASE h.op = "create" -> CreateAfterFetch(h1, FetchResult(reply))
                         [] h.op = "link" -> LinkAfterFetch(h1, FetchResult(reply))
                         [] h.op = "levels" -> LevelsAfterFetch(h1, FetchResult(reply))]
  /\ UNCHANGED <<env, db, serial, now, arrived>>

\* fetch() rejects: the request of r never reached the provider
FetchFails(r) ==
  /\ handler[r].pc = "call"
  /\ handler' = [handler EXCEPT ![r] =
                   Catch([@ EXCEPT !.res = Rejected], Str("fetch failed"))]
  /\ UNCHANGED <<env, db, serial, now, applicants, arrived>>

\* upsertApplicantInDb resolves: the row is written and the handler responds
WriteReturns(r) ==
  /\ handler[r].pc = "write"
  /\ LET h == [handler[r] EXCEPT !.io = Append(@, "write")]
         p == UpsertArgs(h)
     IN /\ AcceptsRow(p)
        /\ db' = UpsertApplicant(db, p, serial + 1, now + 1)
        /\ \E dbRow \in SelectApplicant(db', p.externalUserId) :
             handler' = [handler EXCEPT ![r] = WriteResponse(h, dbRow)]
  /\ serial' = serial + 1
  /\ now' = now + 1
  /\ UNCHANGED <<env, applicants, arrived>>

\* upsertApplicantInDb rejects: the store is unreachable or refuses the row
WriteFails(r) ==
  /\ handler[r].pc = "write"
  /\ handler' = [handler EXCEPT ![r] =
                   Catch([@ EXCEPT !.io = Append(@, "write")], Str("store write failed"))]
  /\ UNCHANGED <<env, db, serial, now, applicants, arrived>>

\* the requests concurrent clients send
Inputs ==
  {[op |-> "levels", body |-> Undefined]}
    \cup {[op |-> "create", body |-> b] : b \in CreateBodies}
    \cup {[op |-> "link", body |-> b] : b \in LinkBodies}

\* the requests a single client sends one after the other
AllInputs ==
  {[op |-> "levels", body |-> Undefined]}
    \cup {[op |-> "create", body |-> b] : b \in AllCreateBodies}
    \cup {[op |-> "link", body |-> b] : b \in AllLinkBodies}

Init ==
  /\ env \in [SUMSUB_APP_TOKEN : {Undefined, Str("token")},
              SUMSUB_SECRET_KEY : {Undefined, Str("secret")}]
  /\ db = {}
  /\ serial = 0
  /\ now = 0
  /\ applicants = {}
  /\ handler = [r \in Reqs |-> Idle]
  /\ arrived = 0

Next ==
  \E r \in Reqs :
    \/ Arrive(r, Inputs, Reqs)
    \/ LookupReturns(r)
    \/ LookupFails(r)
    \/ ProviderReplies(r)
    \/ FetchFails(r)
    \/ WriteReturns(r)
    \/ WriteFails(r)

Spec == Init /\ [][Next]_vars

\* one client that sends its requests one after the other, with any input
NextSerial ==
  \/ Arrive(1, AllInputs, {1})
  \/ LookupReturns(1)
  \/ LookupFails(1)
  \/ ProviderReplies(1)
  \/ FetchFails(1)
  \/ WriteReturns(1)
  \/ WriteFails(1)

SerialSpec == Init /\ [][NextSerial]_vars

\* the create-applicant requests of two clients for two identities
PairInputs ==
  {[op |-> "create", body |-> b] :
     b \in {Body(FullCreate("u1", Str("acme"), Num(1), Undefined)),
            Body(FullCreate("u1", Str("globex"), Str("2"), Undefined)),
            Body(FullCreate("u2", Str("acme"), Num(2), Undefined))}}

\* two clients whose create-applicant requests overlap
NextPair ==
  \E r \in {1, 2} :
    \/ Arrive(r, PairInputs, {1, 2})
    \/ LookupReturns(r)
    \/ LookupFails(r)
    \/ ProviderReplies(r)
    \/ FetchFails(r)
    \/ WriteReturns(r)
    \/ WriteFails(r)

PairSpec == Init /\ [][NextPair]_vars

\* the store query or provider call handler r awaits settles, either way
Settle(r) ==
  \/ LookupFails(r)
  \/ FetchFails(r)
  \/ WriteFails(r)
  \/ LookupReturns(r)
  \/ ProviderReplies(r)
  \/ WriteReturns(r)

\* two clients sending any of the three requests
NextDuo ==
  \E r \in {1, 2} :
    \/ Arrive(r, Inputs, {1, 2})
    \/ Settle(r)

\* every awaited call settles and the event loop then resumes its handler
FairSpec == Init /\ [][NextDuo]_vars /\ \A r \in {1, 2} : WF_vars(Settle(r))

(***************************************************************************)
(* Properties.                                                             *)
(***************************************************************************)
\* the handlers of an operation that have started
Started(o) == {r \in Reqs : handler[r].op = o}
\* the handlers of an operation that have answered
Answered(o) == {r \in Reqs : handler[r].op = o /\ handler[r].pc = "done"}
\* the response of an answered handler
Result(r) == handler[r].out[1]
\* the identity a handler works for
UserOf(r) == Field(handler[r], "externalUserId")
\* the answered create-applicant handlers that created a new applicant
Created == {r \in Answered("create") : Result(r).ok /\ ~Result(r).reused}
\* the rows of an identity
RowsOf(u) == {row \in db : row.external_user_id = u}

\* C1 as stated: for every externalUserId the provider accepts at most one
\* applicant-creation request, in every execution.
C1_AtMostOneProviderApplicant ==
  \A a, b \in applicants : a.externalUserId = b.externalUserId => a = b

\* C1 amended: the provider accepts a creation request only from a
\* create-applicant handler whose lookup, made before the request, found no
\* mapping with a non-empty applicantId.
C1_CreationOnlyAfterEmptyLookup ==
  [][applicants' # applicants =>
       \E r \in Reqs :
         /\ handler[r].op = "create" /\ handler[r].pc = "call"
         /\ handler[r].io = <<"read", "fetch">>
         /\ ~Truthy(ApplicantIdOf(handler[r].existing))
         /\ handler'[r].pc # "call"
         /\ \E a \in applicants' \ applicants : a.externalUserId = UserOf(r)]_vars

\* C1 witness: two applicants of one identity exist at the provider, each
\* created for a handler whose lookup had found nothing.
C1_Witness ==
  \E r1, r2 \in Created :
    /\ r1 # r2 /\ UserOf(r1) = UserOf(r2)
    /\ handler[r1].existing = Null /\ handler[r2].existing = Null
    /\ Cardinality({a \in applicants : a.externalUserId = UserOf(r1)}) = 2

\* C2: when create-applicant succeeded for an identity and is then called again
\* for it with all required fields, the second call answers with the same
\* applicantId as the first, tagged reused, and makes no provider call.
C2_SecondCallReuses ==
  \A r1, r2 \in Answered("create") :
    (/\ r1 \in handler[r2].after
     /\ Result(r1).ok
     /\ UserOf(r1) = UserOf(r2)
     /\ CreateValidation(handler[r2]) = ""
     /\ handler[r2].existing # Undefined)
    => /\ Result(r2).ok /\ Result(r2).reused
       /\ Result(r2).applicantId = Result(r1).applicantId
       /\ handler[r2].sent = <<>>

\* C3: once the table holds an applicantId for an identity, no step changes
\* the applicantId stored for that identity.
C3_ApplicantIdNeverReplaced ==
  [][\A old \in db : \A new \in db' :
       (new.external_user_id = old.external_user_id /\ Truthy(old.applicant_id))
       => new.applicant_id = old.applicant_id]_vars

\* C4: the table holds at most one row per externalUserId.
C4_OneRowPerIdentity ==
  \A x, y \in db : x.external_user_id = y.external_user_id => x = y

\* C4 witness: two create-applicant handlers of one identity both found no
\* mapping and both wrote, and one row of that identity exists.
C4_Witness ==
  \E r1, r2 \in Created :
    /\ r1 # r2 /\ UserOf(r1) = UserOf(r2)
    /\ handler[r1].existing = Null /\ handler[r2].existing = Null
    /\ Cardinality(RowsOf(UserOf(r1))) = 1

\* the provider answered the request of h with a success status
ReplyOk(h) == "ok" \in DOMAIN h.res /\ h.res.ok
\* the provider call of h failed: fetch rejected or the status was not a success
ReplyFailed(h) == h.res # Undefined /\ ~ReplyOk(h)
\* the position of a store or provider access in the order read, call, write
Rank(e) == CASE e = "read" -> 1 [] e = "fetch" -> 2 [] e = "write" -> 3
\* the accesses of io happen in the order read, call, write, each at most once
InOrder(io) == \A i, j \in 1..Len(io) : i < j => Rank(io[i]) < Rank(io[j])

\* C5: a create-applicant handler reads the table, then calls the provider,
\* then writes the table; every row carries a non-empty applicantId that the
\* provider returned for that externalUserId; and the table changes only in
\* the write of a handler that holds such an id, so a handler that stops
\* earlier leaves the table as it was.
C5_ReadThenCallThenWrite ==
  /\ [](\A r \in Started("create") :
          handler[r].io \in {<<>>, <<"read">>, <<"read", "fetch">>,
                             <<"read", "fetch", "write">>})
  /\ [](\A row \in db :
          /\ Truthy(row.applicant_id)
          /\ [externalUserId |-> row.external_user_id, id |-> row.applicant_id]
               \in applicants)
  /\ [][db' # db =>
          \E r \in Reqs :
            /\ handler[r].op = "create" /\ handler[r].pc = "write"
            /\ handler[r].io = <<"read", "fetch">>
            /\ handler'[r].io = <<"read", "fetch", "write">>
            /\ ReplyOk(handler[r]) /\ Truthy(handler[r].applicantId)]_vars

\* C5 witness: a handler has read, called and written, and its row is stored.
C5_Witness ==
  \E r \in Created :
    /\ handler[r].io = <<"read", "fetch", "write">>
    /\ \E row \in db : /\ row.external_user_id = UserOf(r)
                       /\ row.applicant_id = handler[r].applicantId

\* the answer of generate-websdk-link when no applicant is stored
CreateFirst ==
  [status |-> 400, ok |-> FALSE,
   error |-> Str("No applicant found in DB for this externalUserId. Create applicant first.")]

\* C6: a generate-websdk-link handler whose lookup finds no mapping with a
\* non-empty applicantId answers with the "create applicant first" failure
\* and sends nothing to the provider.
C6_LinkNeedsApplicant ==
  \A r \in Started("link") :
    /\ handler[r].existing = Null =>
         /\ handler[r].pc = "done" /\ handler[r].out = <<CreateFirst>>
         /\ handler[r].sent = <<>> /\ handler[r].io = <<"read">>
    /\ handler[r].sent # <<>> => Truthy(ApplicantIdOf(handler[r].existing))

\* C6 witness: a link request for an identity without a mapping was refused.
C6_Witness ==
  \E r \in Answered("link") :
    handler[r].existing = Null /\ RowsOf(UserOf(r)) = {}

\* the value v is stored in a column of the row
Stores(row, v) ==
  \/ row.external_user_id = v \/ row.brand = v
  \/ row.inbox_id = v \/ row.applicant_id = v

\* C7: no step of a generate-websdk-link handler changes the table, whatever
\* its outcome, and no row holds the hosted url or the email.
C7_LinkNeverWrites ==
  /\ [][\A r \in Reqs :
          ((handler[r].op = "link" \/ handler'[r].op = "link")
             /\ handler'[r] # handler[r])
          => (db' = db /\ serial' = serial)]_vars
  /\ [](\A r \in Started("link") : \A row \in db :
          /\ ~Stores(row, Field(handler[r], "email"))
          /\ NonBlank(Field(handler[r], "email"))
               => ~Stores(row, Trim(Field(handler[r], "email")))
          /\ ReplyOk(handler[r])
               => ~Stores(row, Get(FetchResult(handler[r].res), "url")))

\* C7 witness: a link was issued while the table holds a mapping.
C7_Witness ==
  \E r \in Answered("link") :
    Result(r).ok /\ Truthy(Result(r).url) /\ RowsOf(UserOf(r)) # {}

\* the field k is present in the body of h
Present(h, k) ==
  /\ h.body.t = "object" /\ k \in DOMAIN h.body.f
  /\ h.body.f[k] \notin {Undefined, Null}

\* h was refused by validation without any store or provider access
Refused(h) ==
  /\ h.pc = "done" /\ Len(h.out) = 1
  /\ h.out[1].status = 400 /\ ~h.out[1].ok
  /\ h.out[1].error \in
       {Str("Missing required fields: externalUserId, brand, inboxId, levelName"),
        Str("Missing required fields: firstName and lastName")}
  /\ h.io = <<>> /\ h.sent = <<>>

\* h went past validation: it issued the lookup
Proceeded(h) == h.pc = "read" \/ (h.io # <<>> /\ h.io[1] = "read")

\* C8 as stated: create-applicant is refused without any access when one of
\* the six required fields is missing, and proceeds exactly when all six are
\* present.
C8_ProceedsIffAllPresent ==
  \A r \in Started("create") :
    IF \A k \in CreateFields : Present(handler[r], k)
    THEN Proceeded(handler[r])
    ELSE Refused(handler[r])

\* C8 amended: create-applicant is refused without any access when one of the
\* six required fields is missing or falsy (empty string, 0), and proceeds
\* exactly when all six are truthy.
C8_ProceedsIffAllTruthy ==
  \A r \in Started("create") :
    IF \A k \in CreateFields : Truthy(Field(handler[r], k))
    THEN Proceeded(handler[r]) /\ ~Refused(handler[r])
    ELSE Refused(handler[r]) /\ ~Proceeded(handler[r])

\* C8 witness: a request without lastName was refused.
C8_Witness ==
  \E r \in Started("create") :
    /\ \A k \in CreateFields \ {"lastName"} : Present(handler[r], k)
    /\ ~Present(handler[r], "lastName")
    /\ Refused(handler[r])

\* every step of the operation of h completed
Completed(h) ==
  CASE h.op = "levels" -> h.io = <<"fetch">> /\ ReplyOk(h)
    [] h.op = "link" ->
         /\ h.io = <<"read", "fetch">> /\ ReplyOk(h)
         /\ Truthy(ApplicantIdOf(h.existing))
         /\ "url" \in DOMAIN h.out[1] /\ Truthy(h.out[1].url)
    [] h.op = "create" ->
         /\ "applicantId" \in DOMAIN h.out[1] /\ "db" \in DOMAIN h.out[1]
         /\ Truthy(h.out[1].applicantId)
         /\ h.out[1].db.applicant_id = h.out[1].applicantId
         /\ \/ /\ h.io = <<"read">>
               /\ h.out[1].db = h.existing
            \/ /\ h.io = <<"read", "fetch", "write">> /\ ReplyOk(h)
               /\ h.out[1].applicantId = h.applicantId
               /\ h.out[1].db.updated_at <= now
    [] OTHER -> FALSE

\* C9: every operation ends with exactly one response, which carries a
\* boolean ok, and ok is true only if every step of the operation completed.
C9_OneResultHonestFlag ==
  \A r \in Reqs :
    /\ Len(handler[r].out) <= 1
    /\ (handler[r].pc = "done") <=> (Len(handler[r].out) = 1)
    /\ handler[r].pc = "done" =>
         /\ "ok" \in DOMAIN Result(r) /\ Result(r).ok \in BOOLEAN
         /\ Result(r).ok => Completed(handler[r])

\* C9 witness: the write of a create-applicant failed and it answered ok false.
C9_Witness ==
  \E r \in Answered("create") :
    /\ handler[r].io = <<"read", "fetch", "write">> /\ ~Result(r).ok

\* C10: a handler reads the table at most once, calls the provider at most
\* once and writes at most once, in that order; a provider call that failed is
\* not sent again and the handler answers with a failure.
C10_OneReadOneCallOneWrite ==
  \A r \in Reqs :
    /\ InOrder(handler[r].io)
    /\ Len(handler[r].sent) <= 1
    /\ Len(handler[r].sent) = Len(SelectSeq(handler[r].io, LAMBDA e : e = "fetch"))
    /\ ReplyFailed(handler[r]) =>
         /\ handler[r].pc = "done" /\ ~Result(r).ok
         /\ Len(handler[r].sent) = 1
         /\ handler[r].io[Len(handler[r].io)] = "fetch"

\* C10 witness: the provider call of a create-applicant failed after its read.
C10_Witness ==
  \E r \in Answered("create") :
    /\ ReplyFailed(handler[r]) /\ handler[r].io = <<"read", "fetch">>

\* the answer of a handler whose provider call found the credentials missing
ConfigError ==
  [status |-> 500, ok |-> FALSE,
   error |-> Str("Missing SUMSUB_APP_TOKEN or SUMSUB_SECRET_KEY in environment variables.")]

\* h has called sumsubFetch: levels does at once, create-applicant after a
\* lookup without an applicant, generate-websdk-link after one with an applicant
CalledProvider(h) ==
  \/ h.op = "levels"
  \/ h.op = "create" /\ h.existing = Null
  \/ h.op = "link" /\ Truthy(ApplicantIdOf(h.existing))

\* C11: when the app token or the secret key is missing, every call of
\* sumsubFetch ends in the configuration error, and neither the signer is
\* invoked nor a request sent.
C11_NoCredentialsNoRequest ==
  ConfigMissing =>
    \A r \in Reqs :
      /\ handler[r].signed = <<>> /\ handler[r].sent = <<>>
      /\ \A i \in 1..Len(handler[r].io) : handler[r].io[i] # "fetch"
      /\ handler[r].res = Undefined
      /\ CalledProvider(handler[r]) =>
           handler[r].pc = "done" /\ handler[r].out = <<ConfigError>>

\* C11 witness: without the secret key, a create-applicant whose lookup found
\* nothing ended in the configuration error.
C11_Witness ==
  /\ ~Truthy(env.SUMSUB_SECRET_KEY) /\ Truthy(env.SUMSUB_APP_TOKEN)
  /\ \E r \in Answered("create") :
       handler[r].existing = Null /\ handler[r].out = <<ConfigError>>

\* the body string a sent request carries: "" when it has no body
SentBodyString(w) == IF w.body = Undefined THEN Str("") ELSE w.body

\* C12: every provider call invokes the signer exactly once; the signature in
\* the header is the HMAC under the secret key of timestamp, upper-case method,
\* the path requested and the body string transmitted ("" without a body), and
\* the timestamp in the header is the signed one.
C12_SignsWhatIsSent ==
  \A r \in Reqs :
    /\ Len(handler[r].signed) = Len(handler[r].sent)
    /\ \A i \in 1..Len(handler[r].sent) :
         LET w == handler[r].sent[i]
         IN /\ w.ts = handler[r].signed[i].ts
            /\ w.sig = handler[r].signed[i].signature
            /\ w.sig = [hmac |-> "sha256", key |-> env.SUMSUB_SECRET_KEY,
                        msg |-> <<w.ts, ToUpperCase(w.method), w.path,
                                  SentBodyString(w)>>]

\* C12 witness: a signed request with a body was sent.
C12_Witness ==
  \E r \in Started("create") :
    /\ Len(handler[r].signed) = 1 /\ Len(handler[r].sent) = 1
    /\ handler[r].sent[1].body = Stringify(CreateProviderBody(handler[r]))

\* item has a non-empty field k
HasField(item, k) ==
  /\ item.t = "object" /\ k \in DOMAIN item.f
  /\ item.f[k] \notin {Undefined, Null, Str("")}

\* the name an item yields: name, else id, else levelName; Undefined for none
Yield(item) ==
  IF HasField(item, "name") THEN item.f.name
  ELSE IF HasField(item, "id") THEN item.f.id
       ELSE IF HasField(item, "levelName") THEN item.f.levelName
            ELSE Undefined

\* the items of a payload: the top-level items array, else list.items, else none
Source(raw) ==
  IF raw.t = "object" /\ "items" \in DOMAIN raw.f /\ raw.f.items.t = "array"
  THEN raw.f.items.a
  ELSE IF /\ raw.t = "object" /\ "list" \in DOMAIN raw.f
          /\ raw.f.list.t = "object" /\ "items" \in DOMAIN raw.f.list.f
          /\ raw.f.list.f.items.t = "array"
       THEN raw.f.list.f.items.a
       ELSE <<>>

\* names is the sequence of the yields of items, without the items that yield
\* nothing: position k of names is the k-th item that yields something
IsYieldsOf(names, items) ==
  LET kept == {i \in 1..Len(items) : Yield(items[i]) # Undefined}
  IN /\ Len(names) = Cardinality(kept)
     /\ \A i \in kept :
          names[Cardinality({j \in kept : j <= i})] = Yield(items[i])

\* C13: levels answers with the flat list of level names of the payload:
\* items from the top-level items array, else from list.items, else none; each
\* item yields name, else id, else levelName; items yielding nothing are
\* dropped and the order is kept.  The three payloads of the specification
\* give ["basic-kyc","x1"], ["lvl-a"] and [].
C13_LevelNamesOfPayload ==
  \A r \in Answered("levels") :
    Result(r).ok =>
      LET raw == Result(r).raw
          names == Result(r).levelNames
      IN /\ IsYieldsOf(names, Source(raw))
         /\ raw = Obj([items |-> Arr(<<Obj([name |-> Str("basic-kyc")]),
                                       Obj([id |-> Str("x1")])>>)])
              => names = <<Str("basic-kyc"), Str("x1")>>
         /\ raw = Obj([list |-> Obj([items |->
                                       Arr(<<Obj([levelName |-> Str("lvl-a")])>>)])])
              => names = <<Str("lvl-a")>>
         /\ raw = EmptyObj => names = <<>>

\* C13 witness: a payload with both item lists, an item with name and id, and
\* items without a name gave the names of the top-level list.
C13_Witness ==
  \E r \in Answered("levels") :
    /\ Result(r).ok
    /\ Len(Source(Result(r).raw)) = 4
    /\ Result(r).levelNames = <<Str("n1"), Str("l3")>>

\* the positions of cs that hold something else than a space
NonSpace(cs) == {i \in 1..Len(cs) : cs[i] # " "}

\* cs from its first to its last character that is not a space
Core(cs) ==
  SubSeq(cs, CHOOSE i \in NonSpace(cs) : \A j \in NonSpace(cs) : i <= j,
             CHOOSE i \in NonSpace(cs) : \A j \in NonSpace(cs) : j <= i)

\* C14: the body create-applicant sends to the provider has a middleName in
\* fixedInfo exactly when the middleName of the request is a text with a
\* character other than a space, and then it holds that text trimmed.
C14_MiddleNameOnlyIfNonBlank ==
  \A r \in Started("create") :
    handler[r].sent # <<>> =>
      LET fixedInfo == handler[r].sent[1].body.of.f.fixedInfo.f
          middleName == Field(handler[r], "middleName")
          blank == middleName.t # "text" \/ NonSpace(middleName.cs) = {}
      IN /\ ("middleName" \in DOMAIN fixedInfo) <=> ~blank
         /\ ~blank => fixedInfo.middleName = Text(Core(middleName.cs))
         /\ blank => DOMAIN fixedInfo = {"firstName", "lastName"}

\* C14 witness: a request with a middleName of spaces was sent on without it.
C14_Witness ==
  \E r \in Started("create") :
    /\ Field(handler[r], "middleName") = Text(<<" ", " ">>)
    /\ Len(handler[r].sent) = 1
    /\ "middleName" \notin DOMAIN handler[r].sent[1].body.of.f.fixedInfo.f

\* the provider answered h with a success status, but without the field the
\* operation needs: id or applicantId for create-applicant, url for the link
FieldMissing(h) ==
  /\ ReplyOk(h)
  /\ \/ /\ h.op = "create"
        /\ ~HasField(h.res.json, "id") /\ ~HasField(h.res.json, "applicantId")
     \/ /\ h.op = "link" /\ ~HasField(h.res.json, "url")

\* C15: when the provider answers with a success status but without the
\* expected field, the handler ends with a failure, has written nothing to the
\* table and has made only that one provider call.
C15_MissingFieldIsFailure ==
  \A r \in Reqs :
    FieldMissing(handler[r]) =>
      /\ handler[r].pc = "done" /\ Len(handler[r].out) = 1
      /\ ~Result(r).ok /\ Result(r).status = 500
      /\ handler[r].io = <<"read", "fetch">>
      /\ Len(handler[r].sent) = 1

\* C15 witness: a creation was answered with {} and the handler failed.
C15_Witness ==
  \E r \in Answered("create") :
    /\ FieldMissing(handler[r]) /\ handler[r].res.json = EmptyObj
    /\ Result(r).error =
         Str("Created applicant but could not find applicantId in Sumsub response.")

\* the required fields of an operation
Required(o) ==
  CASE o = "create" -> CreateFields
    [] o = "link" -> {"externalUserId", "levelName"}
    [] OTHER -> {}

\* the required fields that the request of h lacks
Lacking(h) == {k \in Required(h.op) : ~Truthy(Field(h, k))}

\* the field names an error message mentions
NamedFields(error) ==
  CASE error = Str("Missing required fields: externalUserId, brand, inboxId, levelName")
         -> {"externalUserId", "brand", "inboxId", "levelName"}
    [] error = Str("Missing required fields: firstName and lastName")
         -> {"firstName", "lastName"}
    [] error = Str("Missing required fields: externalUserId, levelName")
         -> {"externalUserId", "levelName"}
    [] OTHER -> {}

\* h ended in a validation failure
ValidationFailed(h) ==
  /\ h.pc = "done" /\ Len(h.out) = 1 /\ h.io = <<>>
  /\ h.out[1].status = 400 /\ ~h.out[1].ok

\* C16 as stated: a validation failure names exactly the required fields that
\* the request lacks.
C16_ErrorNamesExactlyMissing ==
  \A r \in Started("create") \cup Started("link") :
    ValidationFailed(handler[r]) =>
      NamedFields(Result(r).error) = Lacking(handler[r])

\* C16 amended: a validation failure names the whole group of required fields
\* whose check failed: externalUserId, brand, inboxId, levelName when one of
\* them is lacking, else firstName and lastName; externalUserId and levelName
\* for the link.  One of the named fields is lacking.
C16_ErrorNamesFailedGroup ==
  \A r \in Started("create") \cup Started("link") :
    LET h == handler[r]
        first == {"externalUserId", "brand", "inboxId", "levelName"}
    IN /\ ValidationFailed(h) <=> Lacking(h) # {}
       /\ Lacking(h) # {} =>
            /\ NamedFields(Result(r).error) =
                 IF h.op = "link" THEN Required("link")
                 ELSE IF Lacking(h) \cap first # {} THEN first
                      ELSE {"firstName", "lastName"}
            /\ NamedFields(Result(r).error) \cap Lacking(h) # {}

\* C16 witness: a request lacking only lastName was refused with the message
\* that names firstName and lastName.
C16_Witness ==
  \E r \in Started("create") :
    /\ Lacking(handler[r]) = {"lastName"}
    /\ ValidationFailed(handler[r])
    /\ NamedFields(Result(r).error) = {"firstName", "lastName"}

\* the step in which the upsert of handler r returns
Upserted(r) ==
  /\ handler[r].pc = "write"
  /\ handler'[r].pc = "done" /\ handler'[r].out[1].ok

\* C17: an upsert inserts the mapping when the identity has none; when it has
\* one it overwrites brand, inbox_id, applicant_id and updated_at and keeps
\* created_at; it leaves the rows of every other identity as they were; a
\* lookup right after it returns exactly the values written, which are also
\* the values the upsert itself returned.
C17_UpsertInsertsOrOverwrites ==
  [][\A r \in Reqs :
       Upserted(r) =>
         LET p == UpsertArgs(handler[r])
             u == p.externalUserId
             old == SelectApplicant(db, u)
             new == SelectApplicant(db', u)
         IN /\ Cardinality(RowsOf(u)') = 1
            /\ \A row \in new :
                 /\ row.brand = p.brand /\ row.inbox_id = p.inboxId
                 /\ row.applicant_id = p.applicantId
                 /\ row.updated_at = now' /\ now' > now
                 /\ IF old = {} THEN row.created_at = now'
                    ELSE \A o \in old : row.created_at = o.created_at
                 /\ handler'[r].out[1].db = row
            /\ {row \in db' : row.external_user_id # u}
                 = {row \in db : row.external_user_id # u}]_vars

\* C17 witness: with the mapping of u2 in the table, the mapping of u1 was
\* overwritten: it holds a later updated_at than created_at and the values
\* of the second writer.
C17_Witness ==
  \E a \in RowsOf(Str("u1")), b \in RowsOf(Str("u2")) :
    /\ a.updated_at > a.created_at
    /\ b.created_at < a.updated_at
    /\ a.brand = Str("globex") /\ a.inbox_id = Num(2)
    /\ b.updated_at = b.created_at

\* the step in which the lookup of create-applicant handler r returns a
\* mapping that holds an applicant
FoundMapping(r) ==
  /\ handler[r].op = "create" /\ handler[r].pc = "read"
  /\ handler'[r] # handler[r]
  /\ Truthy(ApplicantIdOf(handler'[r].existing))

\* C18: a create-applicant call that finds a mapping answers at once with the
\* stored applicantId, tagged as reused, having made one store read and no
\* store write or provider call; the table, timestamps included, is left as
\* it was, also when the request names another brand or inbox.
C18_ReuseWritesNothing ==
  [][\A r \in Reqs :
       FoundMapping(r) =>
         LET h == handler'[r]
         IN /\ h.pc = "done" /\ Len(h.out) = 1
            /\ h.out[1].ok /\ h.out[1].reused
            /\ h.io = <<"read">> /\ h.sent = <<>>
            /\ db' = db /\ now' = now
            /\ \E row \in SelectApplicant(db', Field(h, "externalUserId")) :
                 /\ h.out[1].applicantId = row.applicant_id
                 /\ h.out[1].db = row]_vars

\* C18 witness: a call naming brand globex and inbox 2 reused the mapping
\* stored for brand acme and inbox 1, and the row still holds acme, 1 and its
\* first timestamps.
C18_Witness ==
  \E r \in Answered("create") :
    /\ Result(r).ok /\ Result(r).reused
    /\ Field(handler[r], "brand") = Str("globex")
    /\ handler[r].io = <<"read">>
    /\ \E row \in RowsOf(UserOf(r)) :
         /\ row.brand = Str("acme") /\ row.inbox_id = Num(1)
         /\ row.updated_at = row.created_at
         /\ row.applicant_id = Result(r).applicantId

\* the step in which create-applicant handler r ends in a failure
FailedStep(r) ==
  /\ handler'[r].op = "create" /\ handler'[r].pc = "done"
  /\ handler'[r] # handler[r]
  /\ Len(handler'[r].out) = 1 /\ ~handler'[r].out[1].ok

\* C19: the step that ends a create-applicant call in a failure, whatever the
\* failure, leaves the table as it was, and every change of the table is made
\* by the step that ends a create-applicant call in success: a failed call
\* has written nothing.
C19_FailureWritesNothing ==
  [][/\ \A r \in Reqs : FailedStep(r) => db' = db
     /\ db' # db =>
          \E r \in Reqs :
            /\ handler[r].op = "create" /\ handler[r].pc = "write"
            /\ handler'[r].pc = "done" /\ Len(handler'[r].out) = 1
            /\ handler'[r].out[1].ok]_vars

\* C19 witness: the store refused the write of a create-applicant call after
\* the provider had created its applicant, and the table holds no trace of
\* that applicant.
C19_Witness ==
  \E r \in Answered("create") :
    /\ ~Result(r).ok
    /\ handler[r].io = <<"read", "fetch", "write">>
    /\ Truthy(handler[r].applicantId)
    /\ db # {}
    /\ \A row \in db : row.applicant_id # handler[r].applicantId

\* C20: when every store and provider call eventually returns or fails, every
\* handler suspended at a call eventually answers; and a suspended handler
\* can always be resumed by its own call settling, whatever the other
\* handlers are doing.
C20_EveryOperationCompletes ==
  /\ \A r \in {1, 2} : (r \in InFlight) ~> (handler[r].pc = "done")
  /\ [](\A r \in {1, 2} : r \in InFlight => ENABLED <<Settle(r)>>_vars)

\* C20 witness: a handler went through its calls and answered while another,
\* which was already running, is still suspended at a call.
C20_Witness ==
  \E r, q \in {1, 2} :
    /\ handler[r].pc = "done" /\ Len(handler[r].io) >= 2
    /\ q \in InFlight /\ r \notin handler[q].after

====
